---- MODULE Spec2Model ----
(***************************************************************************)
(* Model of fc-man's image builder (src/src/image_builder.rs): the typed   *)
(* mount lifecycle ImageRootFs<Unmounted> -> ImageRootFs<Mounted>, the     *)
(* orchestrator build_image_from_base with its external tool processes and *)
(* the forked customization child, the directory setup, and the scan for   *)
(* the gzip signature in the kernel file.                                  *)
(*                                                                         *)
(* Paths are sequences of components: /var/lib/fc-man is                   *)
(* <<"var", "lib", "fc-man">> and PathBuf::push is Append.                 *)
(***************************************************************************)
EXTENDS Integers, Sequences, FiniteSets, TLC

\* ------------------------------------------------------------------ bounds

\* Number of build_image_from_base calls made on the one builder.
MaxBuilds == 2

\* ------------------------------------------------------- program constants

VAR_DIR == <<"var", "lib", "fc-man">>
MOUNT == "mount"
IMAGE_BUILDER == "image-builder"
ROOTFS_FILENAME == "rootfs.ext4"
MKFS_EXT4 == "mkfs.ext4"
UMOUNT == "umount"
BOOT == "boot"
INITRAM_FS == "initramfs-virt"
VMLINUZ == "vmlinuz-virt"
VMLINUX == "vmlinux-virt"
GZIP_MAGIC_NUM == <<31, 139, 8>>

\* The ordered command list the child executes (program of each Command).
get_alpine_setup_commands == <<"/sbin/apk update", "/sbin/apk add", "/bin/ln", "/bin/echo">>

Builds == 1..MaxBuilds

\* Uuid::new_v4().to_string(): a fresh token per call; call b gets token b.
new_v4(b) == ToString(b)

\* -------------------------------------------------------------------- paths

push(path, component) == Append(path, component)

\* ImageBuilder::default().image_builder_dir
image_builder_dir == push(VAR_DIR, IMAGE_BUILDER)

get_working_dir(id) == push(image_builder_dir, id)

get_mount_dir == push(image_builder_dir, MOUNT)

\* All prefixes of a path, the path itself included, the root excluded.
Prefixes(path) == {SubSeq(path, 1, n) : n \in 1..Len(path)}

\* ---------------------------------------------------------------- resources

\* No resource bound yet (before ImageRootFs::new).
NoRes == [id |-> "", working_dir |-> <<>>, mount_dir |-> <<>>,
          rootfs_file |-> <<>>, state |-> "none"]

\* ImageRootFs::<Unmounted>::new
ImageRootFs_new(id, working_dir, mount_dir) ==
    [id |-> id,
     working_dir |-> working_dir,
     mount_dir |-> mount_dir,
     rootfs_file |-> push(working_dir, ROOTFS_FILENAME),
     state |-> "Unmounted"]

\* A mount() that hands back the paths crossed over.
mount_swapped(self) ==
    [id |-> self.id,
     working_dir |-> self.mount_dir,
     mount_dir |-> self.working_dir,
     rootfs_file |-> self.rootfs_file,
     state |-> "Mounted"]

\* A mount() whose value is still typed Unmounted.
mount_untyped(self) ==
    [id |-> self.id,
     working_dir |-> self.working_dir,
     mount_dir |-> self.mount_dir,
     rootfs_file |-> self.rootfs_file,
     state |-> "Unmounted"]

\* The value mount(self) returns on Ok: the same fields, typed Mounted.
mount(self) ==
    [id |-> self.id,
     working_dir |-> self.working_dir,
     mount_dir |-> self.mount_dir,
     rootfs_file |-> self.rootfs_file,
     state |-> "Mounted"]

\* unmount(self) takes self by value: the resource is consumed.
unmount(self) == [self EXCEPT !.state = "consumed"]

\* test::build_image_root_fs(_state): a struct literal for any state S.
build_image_root_fs(S) ==
    [id |-> "id", working_dir |-> <<>>, mount_dir |-> <<>>,
     rootfs_file |-> <<>>, state |-> S]

NoImage == [rootfs_path |-> <<>>, initrd_path |-> <<>>, kernel_path |-> <<>>]

NoTool == [name |-> "none", status |-> "none", code |-> 0]

\* No unpack of the call is under way.
NotUnpacking == -1

\* The process that runs the builder and makes its calls. The other processes
\* that make calls are the forked children that returned out of a call: the
\* child forked by call a is process a.
Orchestrator == 0

\* No image: the root of a child that called chroot while nothing was attached
\* at mount_dir is the host's directory mount_dir itself.
HostDir == <<>>

NoChild == [pc |-> "none", k |-> 0, root |-> "host", onto |-> HostDir, code |-> 0,
            waited |-> "no",
            escaped |-> FALSE, ran |-> <<>>, running |-> {}, last |-> -1]

NoResult == [kind |-> "none", err |-> "none", stage |-> "none", image |-> NoImage,
             at |-> "none"]

\* ------------------------------------------------- find_vmlinuz_gzip_offset

\* Length of the longest enumerated kernel-file content.
MaxLen == 4

\* Length of the longest schedule of short inner reads.
MaxReads == 2

\* let mut buf = [0; 1024]
BufSize == 1024

\* BufReader::new: the capacity of the reader's internal buffer.
DEFAULT_BUF_SIZE == 8192

Min(a, b) == IF a < b THEN a ELSE b

\* A window comparison that looks at the two magic bytes only.
window_eq_magic_only(window) ==
    SubSeq(window, 1, 2) = SubSeq(GZIP_MAGIC_NUM, 1, 2)

\* |window| window == GZIP_MAGIC_NUM
window_eq(window) == window = GZIP_MAGIC_NUM

\* buf[..read].windows(GZIP_MAGIC_NUM.len()).position(..): the 0-based index
\* of the first matching window of the chunk, -1 for None.
position(chunk) ==
    LET n == Len(GZIP_MAGIC_NUM)
        hits == {i \in 0..(Len(chunk) - n) : window_eq(SubSeq(chunk, i + 1, i + n))}
    IN  IF hits = {} THEN -1
        ELSE CHOOSE i \in hits : \A j \in hits : i <= j

\* The found branch forgetting the bytes of the earlier chunks.
found_offset_chunk_only(acc, offset) == offset

\* gzip_magic_num_offset += offset; return Ok(gzip_magic_num_offset as u64)
found_offset(acc, offset) == acc + offset

\* gzip_magic_num_offset += read
missed_offset(acc, read) == acc + read

\* What the i-th read of the underlying source returns when `remaining` bytes
\* are left: everything it is asked for, except that the first Len(reads)
\* reads are short reads of at most reads[i] bytes. 0 only at end of input.
inner_read(remaining, reads, i) ==
    Min(remaining,
        IF i <= Len(reads) THEN Min(reads[i], DEFAULT_BUF_SIZE) ELSE DEFAULT_BUF_SIZE)

FindPending ==
    [kind |-> "none", err |-> "none", offset |-> 0, before |-> 0, p |-> -1, chunks |-> 0]

FindOk(o, before, p, nchunks) ==
    [kind |-> "Ok", err |-> "none", offset |-> o, before |-> before, p |-> p,
     chunks |-> nchunks]

FindErr(e, before, nchunks) ==
    [kind |-> "Err", err |-> e, offset |-> 0, before |-> before, p |-> -1,
     chunks |-> nchunks]

\* A loop that searches each chunk together with the last two bytes of the
\* chunk before it.
RECURSIVE find_loop_overlapped(_, _, _, _, _, _, _, _)
find_loop_overlapped(data, reads, err_at, pos, avail, k, acc, c) ==
    IF avail = 0 /\ k + 1 = err_at
    THEN FindErr("Io", pos, c)
    ELSE
      LET filled == IF avail = 0 THEN inner_read(Len(data) - pos, reads, k + 1) ELSE avail
          k2 == IF avail = 0 THEN k + 1 ELSE k
          read == Min(filled, BufSize)
          carry == Min(pos, Len(GZIP_MAGIC_NUM) - 1)
          offset == position(SubSeq(data, pos - carry + 1, pos + read))
      IN  IF read = 0 THEN FindErr("MissingGzipHeader", pos, c)
          ELSE IF offset # -1
                 THEN FindOk(found_offset(acc, offset) - carry, pos, offset - carry, c + 1)
          ELSE find_loop_overlapped(data, reads, err_at, pos + read, filled - read, k2,
                                    missed_offset(acc, read), c + 1)

\* The loop of find_vmlinuz_gzip_offset over BufReader::read. pos: bytes handed
\* to the loop so far; avail: bytes left in the BufReader's buffer; k: reads of
\* the underlying source so far; acc: gzip_magic_num_offset; c: chunks seen.
RECURSIVE find_loop(_, _, _, _, _, _, _, _)
find_loop(data, reads, err_at, pos, avail, k, acc, c) ==
    IF avail = 0 /\ k + 1 = err_at
    THEN FindErr("Io", pos, c)
    ELSE
      LET filled == IF avail = 0 THEN inner_read(Len(data) - pos, reads, k + 1) ELSE avail
          k2 == IF avail = 0 THEN k + 1 ELSE k
          read == Min(filled, BufSize)
          offset == position(SubSeq(data, pos + 1, pos + read))
      IN  IF read = 0 THEN FindErr("MissingGzipHeader", pos, c)
          ELSE IF offset # -1 THEN FindOk(found_offset(acc, offset), pos, offset, c + 1)
          ELSE find_loop(data, reads, err_at, pos + read, filled - read, k2,
                         missed_offset(acc, read), c + 1)

\* find_vmlinuz_gzip_offset(vmlinuz_file) on a source holding `data` whose
\* first reads are the short reads `reads` and whose read number err_at (0:
\* none) fails. A Cursor is reads = <<>>, err_at = 0.
find_vmlinuz_gzip_offset(data, reads, err_at) ==
    find_loop(data, reads, err_at, 0, 0, 0, 0, 0)

\* ---------------------------------------------------------------- setup_dirs

\* Path::exists(dir): something (a directory or a file) is at the path.
exists(dir, d, f) == dir \in d \union f

\* fs::create_dir_all(dir) on the directories d: the outcomes [ok, dirs]. It
\* makes every missing component, shortest first; making a component may fail,
\* and the ones made before it stay.
create_dir_all(dir, d) ==
    LET missing == {n \in 1..Len(dir) : SubSeq(dir, 1, n) \notin d}
        made(j) == {SubSeq(dir, 1, n) : n \in {m \in missing : m < j}}
    IN  {[ok |-> TRUE, dirs |-> d \union Prefixes(dir)]}
        \union {[ok |-> FALSE, dirs |-> d \union made(j)] : j \in missing}

\* A turn that makes the directory without looking first, and takes a
\* directory that is there for an error (AlreadyExists).
setup_one_dir_unchecked(dir, d, f) ==
    IF exists(dir, d, f) THEN {[ok |-> FALSE, dirs |-> d]}
    ELSE create_dir_all(dir, d)

\* One turn of the loop of setup_dirs: if !Path::exists(dir) { create_dir_all(dir)? }
setup_one_dir(dir, d, f) ==
    IF ~exists(dir, d, f) THEN create_dir_all(dir, d)
    ELSE {[ok |-> TRUE, dirs |-> d]}

\* The outcomes of running the loop over the list `todo` from directories d:
\* the first failing turn ends the call.
RECURSIVE setup_loop(_, _, _)
setup_loop(todo, d, f) ==
    IF todo = <<>> THEN {[ok |-> TRUE, dirs |-> d]}
    ELSE LET outs == setup_one_dir(Head(todo), d, f)
         IN  {o \in outs : ~o.ok}
             \union UNION {setup_loop(Tail(todo), o.dirs, f) : o \in {x \in outs : x.ok}}

\* setup_dirs(working_dir, mount_dir): dirs = [image_builder_dir, working_dir, mount_dir]
setup_dirs(working_dir, mount_dir, d, f) ==
    setup_loop(<<image_builder_dir, working_dir, mount_dir>>, d, f)

\* -------------------------------------------------------------------- state

VARIABLES
    pc,               \* pc[b]: the stage call b of build_image_from_base is at
    res,              \* res[b]: the ImageRootFs value of call b, with its typed state
    log,              \* log[b]: the stage calls made so far, each with the state of
                      \*         the resource it was made on and whether an external
                      \*         process of the build was still running
    result,           \* result[b]: what call b returned
    initram_fs_path,  \* the local initram_fs_path of call b
    image,            \* the local image of call b
    tool,             \* tool[b]: the tool process Command::output() runs for call b
    child,            \* child[b]: the process forked by execute_setup in call b
    dirs,             \* the directories that exist on the host
    files,            \* the files that exist on the host
    mounts,           \* the image files attached at mount_dir, the latest last
    root,             \* the root directory of the orchestrating process
    inside,           \* <<image file, path>>: the path exists in the filesystem
                      \*   that the image file holds
    consumed,         \* the Unmounted values mount() was called on
    test_fs,          \* the value test::build_image_root_fs made, NoRes before
    vm,               \* where VmManager::run, called by main, is at
    unpacking,        \* unpacking[b]: the entries the unpack of call b has written
    caller,           \* caller[b]: the process that made call b
    f_input,          \* find_vmlinuz_gzip_offset: the bytes of the source
    f_reads,          \*   the short reads of the source
    f_err_at,         \*   the read of the source that fails, 0 for none
    f_result,         \*   what the call returned
    sd_args,          \* setup_dirs called on its own: the arguments of the last call
    sd_result,        \*   what it returned
    sd_before,        \*   the directories before it
    sd_ok             \*   the arguments of the calls that returned Ok before it

buildVars == <<pc, res, log, result, initram_fs_path, image, tool, child>>
hostVars == <<dirs, files, mounts, root, inside>>
findVars == <<f_input, f_reads, f_err_at, f_result>>
sdVars == <<sd_args, sd_result, sd_before, sd_ok>>
vars == <<buildVars, hostVars, consumed, test_fs, vm, unpacking, caller, findVars, sdVars>>

\* The host before the builder runs: /var/lib exists, and the builder's own
\* directories are either not made yet or left from an earlier run.
InitDirs ==
    {Prefixes(SubSeq(VAR_DIR, 1, Len(VAR_DIR) - 1)), Prefixes(get_mount_dir)}

BuildIdle ==
    /\ pc = [b \in Builds |-> "idle"]
    /\ res = [b \in Builds |-> NoRes]
    /\ log = [b \in Builds |-> <<>>]
    /\ result = [b \in Builds |-> NoResult]
    /\ initram_fs_path = [b \in Builds |-> <<>>]
    /\ image = [b \in Builds |-> NoImage]
    /\ tool = [b \in Builds |-> NoTool]
    /\ child = [b \in Builds |-> NoChild]
    /\ files = {}
    /\ mounts = <<>>
    /\ root = "host"
    /\ inside = {}
    /\ consumed = {}
    /\ test_fs = NoRes
    /\ vm = "new"
    /\ unpacking = [b \in Builds |-> NotUnpacking]
    /\ caller = [b \in Builds |-> Orchestrator]

FindIdle ==
    /\ f_input = <<>>
    /\ f_reads = <<>>
    /\ f_err_at = 0
    /\ f_result = FindPending

SdIdle ==
    /\ sd_args = <<>>
    /\ sd_result = "none"
    /\ sd_before = {}
    /\ sd_ok = {}

\* ------------------------------------------------- build_image_from_base

\* The stage order with the two extractions exchanged.
next_stage_swapped(s) ==
    CASE s = "setup_dirs" -> "allocate_file"
      [] s = "allocate_file" -> "format"
      [] s = "format" -> "mount"
      [] s = "mount" -> "copy_from_base_fs"
      [] s = "copy_from_base_fs" -> "execute_setup"
      [] s = "execute_setup" -> "extract_and_decompress_vmlinuz"
      [] s = "extract_and_decompress_vmlinuz" -> "extract_initramfs"
      [] s = "extract_initramfs" -> "unmount"
      [] s = "unmount" -> "done"

\* The statement that follows each stage call in build_image_from_base.
next_stage(s) ==
    CASE s = "setup_dirs" -> "allocate_file"
      [] s = "allocate_file" -> "format"
      [] s = "format" -> "mount"
      [] s = "mount" -> "copy_from_base_fs"
      [] s = "copy_from_base_fs" -> "execute_setup"
      [] s = "execute_setup" -> "extract_initramfs"
      [] s = "extract_initramfs" -> "extract_and_decompress_vmlinuz"
      [] s = "extract_and_decompress_vmlinuz" -> "unmount"
      [] s = "unmount" -> "done"

\* An output() that hands back as soon as the tool is spawned.
output_returns_early(t) == t.status \in {"running", "exited"}

\* Command::output() blocks until the spawned tool has exited.
output_returns(t) == t.status = "exited"

\* A waitpid that does not block (WNOHANG).
waitpid_nohang(c) == c.pc # "none"

\* waitpid(child, None) blocks until the child has terminated.
waitpid_returns(c) == c.pc = "exited"

\* An external process of call b is still running.
ExternalBusy(b) ==
    \/ tool[b].status = "running"
    \/ child[b].pc \in {"chroot", "cmds", "escaped", "stuck"}

\* The root directory of the process that runs call b: the orchestrator's, or
\* that of the forked child that makes the call.
RootOf(b) == IF caller[b] = Orchestrator THEN root ELSE child[caller[b]].root

\* Call b runs in a process that has called chroot(mount_dir): every path the
\* call opens is looked up under what mount_dir led to at that time.
Chrooted(b) == RootOf(b) = "mount_dir"

\* What the root of the process of call b is: an image, or HostDir.
RootImage(b) == child[caller[b]].onto

\* The host paths that lie under directory d, as seen from d.
Under(d, S) ==
    {SubSeq(q, Len(d) + 1, Len(q)) :
        q \in {x \in S : Len(x) > Len(d) /\ SubSeq(x, 1, Len(d)) = d}}

\* The directories and the files that the process of call b sees.
DirsSeen(b) ==
    IF ~Chrooted(b) THEN dirs
    ELSE IF RootImage(b) = HostDir THEN Under(get_mount_dir, dirs)
    ELSE {e[2] : e \in {x \in inside : x[1] = RootImage(b)}}

FilesSeen(b) ==
    IF ~Chrooted(b) THEN files
    ELSE IF RootImage(b) = HostDir THEN Under(get_mount_dir, files)
    ELSE {}

\* The process of call b has made directories D and files F (paths as it
\* names them): they land under its root.
Made(b, D, F) ==
    IF ~Chrooted(b)
      THEN /\ dirs' = dirs \union D
           /\ files' = files \union F
           /\ UNCHANGED inside
    ELSE IF RootImage(b) = HostDir
      THEN /\ dirs' = dirs \union {get_mount_dir \o q : q \in D}
           /\ files' = files \union {get_mount_dir \o q : q \in F}
           /\ UNCHANGED inside
    ELSE /\ inside' = inside \union {<<RootImage(b), q>> : q \in D \union F}
         /\ UNCHANGED <<dirs, files>>

\* A stage call is made: op on a resource typed st, with argument arg.
Called(b, op, st, arg) ==
    log' = [log EXCEPT ![b] = Append(@, [op |-> op, state |-> st, arg |-> arg,
                                         busy |-> ExternalBusy(b), root |-> RootOf(b)])]

\* An error that is recorded while the call goes on to the next stage.
Failed_continues(b, stage, e) ==
    /\ result' = [result EXCEPT ![b] =
                    [kind |-> "Err", err |-> e, stage |-> stage, image |-> NoImage,
                     at |-> "none"]]
    /\ pc' = [pc EXCEPT ![b] = IF stage = "unmount" THEN "done" ELSE
                CASE stage = "setup_dirs" -> "allocate_file"
                  [] stage = "allocate_file" -> "format"
                  [] stage = "format" -> "mount"
                  [] stage = "mount" -> "copy_from_base_fs"
                  [] stage = "copy_from_base_fs" -> "execute_setup"
                  [] stage = "execute_setup" -> "extract_initramfs"
                  [] stage = "extract_initramfs" -> "extract_and_decompress_vmlinuz"
                  [] stage = "extract_and_decompress_vmlinuz" -> "unmount"]

\* `?` on an Err that the call `at` inside the stage returned: the stage and
\* build_image_from_base return the error, and nothing else of them runs.
FailedIn(b, stage, e, at) ==
    /\ result' = [result EXCEPT ![b] =
                    [kind |-> "Err", err |-> e, stage |-> stage, image |-> NoImage,
                     at |-> at]]
    /\ pc' = [pc EXCEPT ![b] = "done"]

\* `?` on an Err: the call returns the error, and nothing else of it runs.
Failed(b, stage, e) == FailedIn(b, stage, e, "none")

Proceed(b, stage) ==
    /\ pc' = [pc EXCEPT ![b] = next_stage(stage)]
    /\ UNCHANGED result

\* Builds are serialized by the caller: a call starts when none is running,
\* and when no process that an earlier call forked is still running. (The
\* overlap of a call with another call or with another call's processes, and
\* the calls that a forked child makes while the call that forked it has not
\* returned, are in SpecConcurrent.)
Serialized(b) ==
    /\ \A o \in Builds : o < b => pc[o] = "done"
    /\ \A o \in Builds : o > b => pc[o] = "idle"
    /\ \A o \in Builds : child[o].pc \in {"none", "exited"}

\* let id = Uuid::new_v4(); working_dir; mount_dir
StartBuild(b) ==
    /\ pc[b] = "idle"
    /\ Serialized(b)
    /\ test_fs = NoRes
    /\ vm = "new"
    /\ pc' = [pc EXCEPT ![b] = "setup_dirs"]
    /\ UNCHANGED <<res, log, result, initram_fs_path, image, tool, child, hostVars,
                   consumed, test_fs, findVars, sdVars,
                   vm, unpacking, caller>>

\* self.setup_dirs(&working_dir, &mount_dir)?
SetupDirs(b) ==
    /\ pc[b] = "setup_dirs"
    /\ Called(b, "setup_dirs", "none", 0)
    /\ \E o \in setup_dirs(get_working_dir(new_v4(b)), get_mount_dir,
                           DirsSeen(b), FilesSeen(b)) :
          /\ Made(b, o.dirs, {})
          /\ IF o.ok THEN Proceed(b, "setup_dirs") ELSE Failed(b, "setup_dirs", "Io")
    /\ UNCHANGED <<res, initram_fs_path, image, tool, child, mounts,
                   root, consumed, test_fs, findVars, sdVars,
                   vm, unpacking, caller>>

\* rootfs.allocate_file(256 * 1024 * 1024)
ALLOCATE_SIZE == 256 * 1024 * 1024

\* let rootfs = ImageRootFs::new(..); rootfs.allocate_file(256 * 1024 * 1024)?
AllocateFile(b) ==
    /\ pc[b] = "allocate_file"
    /\ LET rootfs == ImageRootFs_new(new_v4(b), get_working_dir(new_v4(b)), get_mount_dir)
       IN  /\ res' = [res EXCEPT ![b] = rootfs]
           /\ Called(b, "allocate_file", rootfs.state, ALLOCATE_SIZE)
           /\ \/ \* File::create_new fails (always so when the file is there)
                 /\ Failed(b, "allocate_file", "Io")
                 /\ Made(b, {}, {})
              \/ \* the file is created, truncate fails
                 /\ rootfs.rootfs_file \notin FilesSeen(b) \union DirsSeen(b)
                 /\ rootfs.working_dir \in DirsSeen(b)
                 /\ Made(b, {}, {rootfs.rootfs_file})
                 /\ Failed(b, "allocate_file", "Syscall")
              \/ /\ rootfs.rootfs_file \notin FilesSeen(b) \union DirsSeen(b)
                 /\ rootfs.working_dir \in DirsSeen(b)
                 /\ Made(b, {}, {rootfs.rootfs_file})
                 /\ Proceed(b, "allocate_file")
    /\ UNCHANGED <<initram_fs_path, image, tool, child, mounts,
                   root, consumed, test_fs, findVars, sdVars,
                   vm, unpacking, caller>>

\* output() has collected the exited tool: its Output (status, stderr) is in
\* the caller's hands until the next tool is spawned. A tool still running stays.
Reaped(t) == IF t.status = "exited" THEN [t EXCEPT !.status = "collected"] ELSE t

\* output()? returned Err after the tool was spawned and has exited (waiting
\* for it failed, as with SIGCHLD ignored): there is no Output, the exit status
\* never reaches the caller.
Lost(t) == IF t.status = "exited" THEN [t EXCEPT !.status = "lost", !.code = 0] ELSE t

\* No tool of the call is spawned and uncollected.
NoToolPending(t) == t.status \in {"none", "collected"}

\* A tool function that turns a non-zero exit status into an error.
tool_outcome_checked(t) == IF t.code = 0 THEN "Ok" ELSE "Err"

\* What format(), mount() and unmount() make of the collected Output: stderr is
\* logged when non-empty, output.status is not read, the function returns Ok.
tool_outcome(t) == "Ok"

Spawned(b, name) == tool' = [tool EXCEPT ![b] = [name |-> name, status |-> "running", code |-> 0]]

Exited(b, c) == tool' = [tool EXCEPT ![b] = [@ EXCEPT !.status = "exited", !.code = c]]

\* Command::new(MKFS_EXT4) names the program without a directory: it is looked
\* up under the root of the calling process. Neither the base archive nor the
\* packages of get_alpine_setup_commands bring a mkfs.ext4, so the program is
\* there for a process whose root is the host's, and for no other.
ProgramFound(b) == ~Chrooted(b)

\* rootfs.format()?: Command::new(MKFS_EXT4).arg(..).output()? is called
FormatCall(b) ==
    /\ pc[b] = "format"
    /\ NoToolPending(tool[b])
    /\ Called(b, "format", res[b].state, 0)
    /\ \/ Failed(b, "format", "Io") /\ UNCHANGED tool
       \/ /\ ProgramFound(b)
          /\ Spawned(b, MKFS_EXT4)
          /\ UNCHANGED <<pc, result>>
    /\ UNCHANGED <<res, initram_fs_path, image, child, hostVars, consumed, test_fs,
                   findVars, sdVars,
                   vm, unpacking, caller>>

\* mkfs.ext4 exits, with any status
MkfsExit(b) ==
    /\ tool[b].status = "running"
    /\ tool[b].name = MKFS_EXT4
    /\ \E c \in {0, 1} : Exited(b, c)
    /\ UNCHANGED <<pc, res, log, result, initram_fs_path, image, child, hostVars,
                   consumed, test_fs, findVars, sdVars,
                   vm, unpacking, caller>>

\* output()? of format returns: Ok(output), of which stderr is logged and the
\* status is not looked at, or Err
FormatReturn(b) ==
    /\ pc[b] = "format"
    /\ tool[b].name = MKFS_EXT4
    /\ output_returns(tool[b])
    /\ \/ \* Ok(output)
          /\ tool' = [tool EXCEPT ![b] = Reaped(@)]
          /\ IF tool_outcome(tool[b]) = "Ok"
                THEN Proceed(b, "format")
                ELSE Failed(b, "format", "Io")
       \/ \* Err: the wait for the exited tool failed
          /\ tool' = [tool EXCEPT ![b] = Lost(@)]
          /\ Failed(b, "format", "Io")
    /\ UNCHANGED <<res, log, initram_fs_path, image, child, hostVars, consumed,
                   test_fs, findVars, sdVars,
                   vm, unpacking, caller>>

\* A mount() that waits until no other call holds a Mounted resource.
mount_admits_exclusive(b) == \A o \in Builds \ {b} : res[o].state # "Mounted"

\* mount() takes no lock and does not look at mount_dir before it runs the
\* tool: it is admitted whatever the other calls are doing.
mount_admits(b) == TRUE

\* rootfs.mount()?: self is moved in; Command::new(MOUNT)...output()? is called
MountCall(b) ==
    /\ pc[b] = "mount"
    /\ NoToolPending(tool[b])
    /\ mount_admits(b)
    /\ Called(b, "mount", res[b].state, 0)
    /\ consumed' = consumed \union {res[b]}
    /\ \/ /\ Failed(b, "mount", "Io")
          /\ res' = [res EXCEPT ![b] = [@ EXCEPT !.state = "consumed"]]
          /\ UNCHANGED tool
       \/ Spawned(b, MOUNT) /\ UNCHANGED <<pc, result, res>>
    /\ UNCHANGED <<initram_fs_path, image, child, hostVars, test_fs, findVars, sdVars, vm, unpacking, caller>>

\* mount exits: with status 0 the image file is attached at mount_dir, on top
\* of whatever is attached there
MountExit(b) ==
    /\ tool[b].status = "running"
    /\ tool[b].name = MOUNT
    /\ \/ Exited(b, 0) /\ mounts' = Append(mounts, res[b].rootfs_file)
       \/ Exited(b, 1) /\ UNCHANGED mounts
    /\ UNCHANGED <<pc, res, log, result, initram_fs_path, image, child, dirs, files,
                   root, inside, consumed, test_fs, findVars, sdVars,
                   vm, unpacking, caller>>

\* output()? of mount returns: Ok(output) and then Ok(ImageRootFs { .. }) typed
\* Mounted, or Err
MountReturn(b) ==
    /\ pc[b] = "mount"
    /\ tool[b].name = MOUNT
    /\ output_returns(tool[b])
    /\ \/ \* Ok(output)
          /\ tool' = [tool EXCEPT ![b] = Reaped(@)]
          /\ IF tool_outcome(tool[b]) = "Ok"
                THEN /\ res' = [res EXCEPT ![b] = mount(@)]
                     /\ Proceed(b, "mount")
                ELSE /\ res' = [res EXCEPT ![b] = [@ EXCEPT !.state = "consumed"]]
                     /\ Failed(b, "mount", "Io")
       \/ \* Err: the wait for the exited tool failed; what it attached stays
          /\ tool' = [tool EXCEPT ![b] = Lost(@)]
          /\ res' = [res EXCEPT ![b] = [@ EXCEPT !.state = "consumed"]]
          /\ Failed(b, "mount", "Io")
    /\ UNCHANGED <<log, initram_fs_path, image, child, hostVars, consumed, test_fs,
                   findVars, sdVars,
                   vm, unpacking, caller>>

\* The entries of the base archive the builder goes on to use, in the order
\* of the archive.
BaseFs ==
    << [path |-> <<BOOT>>, dir |-> TRUE],
       [path |-> <<BOOT, INITRAM_FS>>, dir |-> FALSE],
       [path |-> <<BOOT, VMLINUZ>>, dir |-> FALSE],
       [path |-> <<"etc">>, dir |-> TRUE] >>

\* The order in which archive.unpack takes the entries: the entries that are
\* not directories in the order of the archive, and the directory entries
\* after all of them, in descending order of their paths.
UnpackOrder == <<BaseFs[2], BaseFs[3], BaseFs[4], BaseFs[1]>>

\* RESOLV_CONF_PATH with its leading "/" stripped
RESOLV_CONF_PATH == [path |-> <<"etc", "resolv.conf">>, dir |-> FALSE]

\* The directory the copy of resolv.conf is made in
RESOLV_CONF_DIR == <<"etc">>

\* The latest image attached at mount_dir: paths under mount_dir lead into it.
Top(m) == m[Len(m)]

\* The path p under mount_dir exists: in the image attached there, and on the
\* host's own directory when nothing is attached.
Visible(mount_dir, p) ==
    IF mounts = <<>>
      THEN (mount_dir \o p) \in (dirs \union files)
      ELSE <<Top(mounts), p>> \in inside

\* The directory that holds path p
parent(p) == SubSeq(p, 1, Len(p) - 1)

\* Path p and the directories above it, as directories: what create_dir_all(p) makes
DirsTo(p) == {[path |-> SubSeq(p, 1, k), dir |-> TRUE] : k \in 1..Len(p)}

\* The system calls of archive.unpack, in order: for an entry that is not a
\* directory, its directory is made when it is missing and then the file is
\* created; a directory entry is made when it is missing.
RECURSIVE StepsOf(_)
StepsOf(order) ==
    IF order = <<>> THEN <<>>
    ELSE LET e == Head(order)
         IN  (IF e.dir \/ Len(e.path) = 1 THEN <<e>>
              ELSE <<[path |-> parent(e.path), dir |-> TRUE], e>>)
             \o StepsOf(Tail(order))

UnpackSteps == StepsOf(UnpackOrder)

\* The entries E are written under mount_dir. A path under mount_dir leads to
\* the image that is attached there at that time.
WrittenUnder(mount_dir, E) ==
    IF mounts = <<>>
      THEN /\ dirs' = dirs \union {mount_dir \o e.path : e \in {x \in E : x.dir}}
           /\ files' = files \union {mount_dir \o e.path : e \in {x \in E : ~x.dir}}
           /\ UNCHANGED inside
      ELSE /\ inside' = inside \union {<<Top(mounts), e.path>> : e \in E}
           /\ UNCHANGED <<dirs, files>>

\* mounted_rootfs.copy_from_base_fs(base_fs_path)?: File::open, and
\* archive.unpack(&self.mount_dir) begins: it makes mount_dir with the
\* directories above it when it is missing
CopyFromBaseFs(b) ==
    /\ pc[b] = "copy_from_base_fs"
    /\ unpacking[b] = NotUnpacking
    /\ Called(b, "copy_from_base_fs", res[b].state, 0)
    /\ \/ \* File::open(base_fs_path)? fails
          /\ UNCHANGED <<dirs, unpacking>>
          /\ Failed(b, "copy_from_base_fs", "Io")
       \/ /\ dirs' = dirs \union {SubSeq(res[b].mount_dir, 1, k) :
                                      k \in 1..Len(res[b].mount_dir)}
          /\ unpacking' = [unpacking EXCEPT ![b] = 0]
          /\ UNCHANGED <<pc, result>>
    /\ UNCHANGED <<res, initram_fs_path, image, tool, child, files, inside, mounts, root,
                   consumed, test_fs, findVars, sdVars, vm, caller>>

\* archive.unpack(..)?: the next system call of UnpackSteps is made, or the
\* unpack fails with what the calls before it have written. A file is created
\* in a directory that is there, under mount_dir as it leads at that time.
UnpackEntry(b) ==
    /\ pc[b] = "copy_from_base_fs"
    /\ unpacking[b] \in 0..(Len(UnpackSteps) - 1)
    /\ LET s == UnpackSteps[unpacking[b] + 1]
           mount_dir == res[b].mount_dir
       IN  \/ /\ IF s.dir
                   THEN IF Visible(mount_dir, s.path)
                          THEN UNCHANGED <<dirs, files, inside>>
                          ELSE WrittenUnder(mount_dir, DirsTo(s.path))
                   ELSE /\ Visible(mount_dir, parent(s.path))
                        /\ WrittenUnder(mount_dir, {s})
              /\ unpacking' = [unpacking EXCEPT ![b] = @ + 1]
              /\ UNCHANGED <<pc, result>>
           \/ /\ UNCHANGED <<dirs, files, inside>>
              /\ unpacking' = [unpacking EXCEPT ![b] = NotUnpacking]
              /\ Failed(b, "copy_from_base_fs", "Io")
    /\ UNCHANGED <<res, log, initram_fs_path, image, tool, child, mounts, root, consumed,
                   test_fs, findVars, sdVars, vm, caller>>

\* fs::copy(*RESOLV_CONF_PATH, resolv_conf_path)? after the unpack: the copy
\* makes its destination when the directory of it is there, and fails before
\* or after that, or returns Ok
CopyResolvConf(b) ==
    /\ pc[b] = "copy_from_base_fs"
    /\ unpacking[b] = Len(UnpackSteps)
    /\ unpacking' = [unpacking EXCEPT ![b] = NotUnpacking]
    /\ LET made == Visible(res[b].mount_dir, RESOLV_CONF_DIR)
       IN  \/ /\ UNCHANGED <<dirs, files, inside>>
              /\ Failed(b, "copy_from_base_fs", "Io")
           \/ /\ made
              /\ WrittenUnder(res[b].mount_dir, {RESOLV_CONF_PATH})
              /\ Failed(b, "copy_from_base_fs", "Io")
           \/ /\ made
              /\ WrittenUnder(res[b].mount_dir, {RESOLV_CONF_PATH})
              /\ Proceed(b, "copy_from_base_fs")
    /\ UNCHANGED <<res, log, initram_fs_path, image, tool, child, mounts, root, consumed,
                   test_fs, findVars, sdVars, vm, caller>>

\* mounted_rootfs.execute_setup(get_alpine_setup_commands())?: fork()
ExecuteSetupFork(b) ==
    /\ pc[b] = "execute_setup"
    /\ Called(b, "execute_setup", res[b].state, 0)
    /\ \/ \* Err(_) => panic!("fork failed!")
          /\ result' = [result EXCEPT ![b] = [kind |-> "panic", err |-> "fork",
                                              stage |-> "execute_setup", image |-> NoImage,
                                              at |-> "none"]]
          /\ pc' = [pc EXCEPT ![b] = "done"]
          /\ UNCHANGED child
       \/ \* Ok(ForkResult::Parent { child }) here, Ok(ForkResult::Child) there
          /\ child' = [child EXCEPT ![b] = [NoChild EXCEPT !.pc = "chroot"]]
          /\ pc' = [pc EXCEPT ![b] = "waitpid"]
          /\ UNCHANGED result
    /\ UNCHANGED <<res, initram_fs_path, image, tool, hostVars, consumed, test_fs,
                   findVars, sdVars,
                   vm, unpacking, caller>>

\* A chroot made in the Parent arm of the match on fork().
chroot_caller_parent == "parent"

\* The process that calls chroot: the call stands in the Child arm of the
\* match on fork().
chroot_caller == "child"

\* A terminated process: its exit code is left for waitpid, its root and its
\* place in the command list are gone with it.
Terminated(c, code) ==
    [c EXCEPT !.pc = "exited", !.code = code, !.k = 0, !.root = "host",
              !.onto = HostDir,
              !.ran = <<>>, !.running = {}, !.last = -1]

\* What `execute_setup(..)?` at line 368 does in the child with the value
\* execute_setup returns there: an Err leaves build_image_from_base, an Ok
\* would go on with the next stage. The locals of the command loop are gone.
child_returns(c, v) ==
    IF v = "Err"
      THEN [c EXCEPT !.pc = "escaped", !.escaped = TRUE, !.k = 0, !.ran = <<>>,
                     !.last = -1]
      ELSE [c EXCEPT !.pc = next_stage("execute_setup")]

\* A child arm that ends in Ok(()) after the last command.
child_finish_returns(c) == child_returns(c, "Ok")

\* std::process::exit(0) after the last command
child_finish(c) == Terminated(c, 0)

\* A Command::spawn(): the loop goes on while the command runs.
status_returned_early(c) == TRUE

\* cmd.status() blocks until the command it launched has exited.
status_returned(c) == c.running = {}

\* the child: chroot(&self.mount_dir)?
ChildChroot(b) ==
    /\ child[b].pc = "chroot"
    /\ \/ IF chroot_caller = "child"
            THEN /\ child' = [child EXCEPT ![b] =
                                [@ EXCEPT !.pc = "cmds", !.k = 1, !.root = "mount_dir",
                                          !.onto = IF mounts = <<>> THEN HostDir
                                                   ELSE Top(mounts)]]
                 /\ UNCHANGED root
            ELSE /\ child' = [child EXCEPT ![b] = [@ EXCEPT !.pc = "cmds", !.k = 1]]
                 /\ root' = "mount_dir"
       \/ \* Err: `?` returns it out of execute_setup, in the child
          /\ child' = [child EXCEPT ![b] = child_returns(@, "Err")]
          /\ UNCHANGED root
    /\ UNCHANGED <<pc, res, log, result, initram_fs_path, image, tool, dirs, files, mounts, inside,
                   consumed, test_fs, findVars, sdVars,
                   vm, unpacking, caller>>

\* the child: cmd.status()? of the next command of the list is called
ChildCommand(b) ==
    /\ child[b].pc = "cmds"
    /\ child[b].k <= Len(get_alpine_setup_commands)
    /\ status_returned(child[b])
    /\ \/ \* the command is launched; the status of the one before is dropped
          child' = [child EXCEPT ![b] =
                      [@ EXCEPT !.ran = Append(@, child[b].k),
                                !.running = @ \union {child[b].k},
                                !.last = -1,
                                !.k = @ + 1]]
       \/ \* the command cannot be launched: `?` returns the Err, in the child
          child' = [child EXCEPT ![b] = child_returns(@, "Err")]
    /\ UNCHANGED <<pc, res, log, result, initram_fs_path, image, tool, hostVars,
                   consumed, test_fs, findVars, sdVars,
                   vm, unpacking, caller>>

\* the launched command exits: status() returns Ok(status), or the wait for
\* the command fails and `?` returns the Err, in the child
ChildCommandExit(b) ==
    /\ child[b].pc = "cmds"
    /\ \E j \in child[b].running :
          \/ \E st \in {0, 1} :
                child' = [child EXCEPT ![b] = [@ EXCEPT !.running = @ \ {j}, !.last = st]]
          \/ child' = [child EXCEPT ![b] =
                         child_returns([@ EXCEPT !.running = @ \ {j}], "Err")]
    /\ UNCHANGED <<pc, res, log, result, initram_fs_path, image, tool, hostVars,
                   consumed, test_fs, findVars, sdVars,
                   vm, unpacking, caller>>

\* the child: std::process::exit(0) after the last command
ChildExit(b) ==
    /\ child[b].pc = "cmds"
    /\ child[b].k > Len(get_alpine_setup_commands)
    /\ status_returned(child[b])
    /\ child' = [child EXCEPT ![b] = child_finish(@)]
    /\ UNCHANGED <<pc, res, log, result, initram_fs_path, image, tool, hostVars,
                   consumed, test_fs, findVars, sdVars,
                   vm, unpacking, caller>>

\* The calls that the child forked by call a has made.
CallsOf(a) == {o \in Builds : caller[o] = a}

\* The child forked by call a can make a call of its own: it has returned out
\* of call a with an Err, and it is not in a call. Its root is the host's when
\* chroot failed, and what mount_dir led to when a command failed.
CanCall(a) ==
    /\ child[a].pc = "escaped"
    /\ \A o \in CallsOf(a) : pc[o] = "done" /\ result[o].kind # "panic"

\* The exit codes of a child that has returned out of its call: what its
\* caller makes of the Err, and the code of a panic in a call it made.
EscapedExitCodes(a) ==
    IF \E o \in CallsOf(a) : result[o].kind = "panic" THEN {101} ELSE {0, 1}

\* the child that returned an Err out of build_image_from_base is in the
\* hands of its caller: it ends with the exit code the caller gives it, or it
\* never ends (the runtime of the caller does not shut down in the forked
\* copy); the further calls it makes are in StartBuildConcurrent
ChildEscapedEnd(b) ==
    /\ child[b].pc = "escaped"
    /\ \A o \in CallsOf(b) : pc[o] = "done"
    /\ \/ \E code \in EscapedExitCodes(b) :
             child' = [child EXCEPT ![b] = Terminated(@, code)]
       \/ child' = [child EXCEPT ![b] = [@ EXCEPT !.pc = "stuck"]]
    /\ UNCHANGED <<pc, res, log, result, initram_fs_path, image, tool, hostVars,
                   consumed, test_fs, findVars, sdVars,
                   vm, unpacking, caller>>

\* A child that waitpid has collected: the status waitpid returns is dropped
\* at line 202, and nothing else of the terminated process remains.
Waited(c) == [c EXCEPT !.waited = "ok", !.code = 0, !.escaped = FALSE]

\* the parent: waitpid(child, None)?
Waitpid(b) ==
    /\ pc[b] = "waitpid"
    /\ \/ /\ waitpid_returns(child[b])
          /\ child' = [child EXCEPT ![b] = Waited(@)]
          /\ Proceed(b, "execute_setup")
       \/ \* Err(errno), whatever the child is doing
          /\ child' = [child EXCEPT ![b] = [@ EXCEPT !.waited = "failed"]]
          /\ Failed(b, "execute_setup", "Syscall")
    /\ UNCHANGED <<res, log, initram_fs_path, image, tool, hostVars, consumed, test_fs,
                   findVars, sdVars,
                   vm, unpacking, caller>>

\* let initram_fs_path = mounted_rootfs.extract_initramfs()?
ExtractInitramfs(b) ==
    /\ pc[b] = "extract_initramfs"
    /\ Called(b, "extract_initramfs", res[b].state, 0)
    /\ LET dest_path == push(res[b].working_dir, INITRAM_FS)
           readable == Visible(res[b].mount_dir, <<BOOT, INITRAM_FS>>)
       IN  \/ \* fs::copy(..)? fails before it has made the destination: the
              \* source is missing or cannot be opened
              /\ Failed(b, "extract_initramfs", "Io")
              /\ UNCHANGED <<files, initram_fs_path>>
           \/ \* fs::copy(..)? fails after it has made the destination
              /\ readable
              /\ files' = files \union {dest_path}
              /\ Failed(b, "extract_initramfs", "Io")
              /\ UNCHANGED initram_fs_path
           \/ /\ readable
              /\ files' = files \union {dest_path}
              /\ initram_fs_path' = [initram_fs_path EXCEPT ![b] = dest_path]
              /\ Proceed(b, "extract_initramfs")
    /\ UNCHANGED <<res, image, tool, child, dirs, mounts, root, inside, consumed, test_fs,
                   findVars, sdVars,
                   vm, unpacking, caller>>

\* The contents boot/vmlinuz-virt may have in the base image.
KernelFiles ==
    {<<>>,
     GZIP_MAGIC_NUM,
     <<0, 1, 31, 139, 7, 1>>,
     <<0, 1, 255, 31, 0>> \o GZIP_MAGIC_NUM \o <<255, 255>>}

\* An extract_and_decompress_vmlinuz that creates its output file first.
creates_output_first(opened, found) == TRUE

\* File::create_new(&out_path) is reached when File::open(&vmlinuz_path)? and
\* find_vmlinuz_gzip_offset(&vmlinuz)? have returned Ok (and seek has).
creates_output(opened, found) == opened /\ found

\* let vmlinux_path = mounted_rootfs.extract_and_decompress_vmlinuz()?
\* let rootfs_path = mounted_rootfs.rootfs_file(); let image = Image { .. }
ExtractAndDecompressVmlinuz(b) ==
    /\ pc[b] = "extract_and_decompress_vmlinuz"
    /\ Called(b, "extract_and_decompress_vmlinuz", res[b].state, 0)
    /\ \E opened \in BOOLEAN, data \in KernelFiles, e \in {0, 1},
          io \in {"none", "create_new", "copy"} :
          LET out_path == push(res[b].working_dir, VMLINUX)
              stage == "extract_and_decompress_vmlinuz"
              r == find_vmlinuz_gzip_offset(data, <<>>, e)
              found == r.kind = "Ok"
              at == IF ~opened THEN "open"
                    ELSE IF ~found THEN "find"
                    ELSE io
              created == /\ creates_output(opened, found)
                         /\ io # "create_new"
          IN  /\ \* io: the call after the search that fails, "create_new" for
                 \* vmlinuz.seek(..)? or File::create_new(&out_path)?. There is
                 \* one outcome for each way to fail before the search has ended.
                 (~opened) => (data = <<>> /\ e = 0 /\ io = "none")
              /\ (opened /\ ~found) => io = "none"
              /\ opened => Visible(res[b].mount_dir, <<BOOT, VMLINUZ>>)
              /\ created => (out_path \notin files /\ res[b].working_dir \in dirs)
              /\ files' = IF created THEN files \union {out_path} ELSE files
              /\ IF at # "none"
                   THEN /\ FailedIn(b, stage, IF at = "find" THEN r.err ELSE "Io", at)
                        /\ UNCHANGED image
                   ELSE /\ image' = [image EXCEPT ![b] =
                                       [rootfs_path |-> res[b].rootfs_file,
                                        initrd_path |-> initram_fs_path[b],
                                        kernel_path |-> out_path]]
                        /\ Proceed(b, stage)
    /\ UNCHANGED <<res, initram_fs_path, tool, child, dirs, mounts, root, inside, consumed, test_fs,
                   findVars, sdVars,
                   vm, unpacking, caller>>

\* mounted_rootfs.unmount()?: self is moved in; Command::new("umount")...output()?
UnmountCall(b) ==
    /\ pc[b] = "unmount"
    /\ NoToolPending(tool[b])
    /\ Called(b, "unmount", res[b].state, 0)
    /\ \/ /\ Failed(b, "unmount", "Io")
          /\ res' = [res EXCEPT ![b] = unmount(@)]
          /\ UNCHANGED tool
       \/ Spawned(b, UMOUNT) /\ UNCHANGED <<pc, result, res>>
    /\ UNCHANGED <<initram_fs_path, image, child, hostVars, consumed, test_fs,
                   findVars, sdVars,
                   vm, unpacking, caller>>

\* umount exits: with status 0 the mount on top of mount_dir is detached
UmountExit(b) ==
    /\ tool[b].status = "running"
    /\ tool[b].name = UMOUNT
    /\ \/ /\ mounts # <<>>
          /\ Exited(b, 0)
          /\ mounts' = SubSeq(mounts, 1, Len(mounts) - 1)
       \/ Exited(b, 1) /\ UNCHANGED mounts
    /\ UNCHANGED <<pc, res, log, result, initram_fs_path, image, child, dirs, files,
                   root, inside, consumed, test_fs, findVars, sdVars,
                   vm, unpacking, caller>>

\* output()? of unmount returns, self is dropped: Ok(output), then Ok(()) and
\* Ok(image), or Err
UnmountReturn(b) ==
    /\ pc[b] = "unmount"
    /\ tool[b].name = UMOUNT
    /\ output_returns(tool[b])
    /\ res' = [res EXCEPT ![b] = unmount(@)]
    /\ \/ \* Ok(output)
          /\ tool' = [tool EXCEPT ![b] = Reaped(@)]
          /\ IF tool_outcome(tool[b]) = "Ok"
                THEN /\ pc' = [pc EXCEPT ![b] = next_stage("unmount")]
                     /\ result' = [result EXCEPT ![b] =
                                     [kind |-> "Ok", err |-> "none", stage |-> "none",
                                      image |-> image[b], at |-> "none"]]
                ELSE Failed(b, "unmount", "Io")
       \/ \* Err: the wait for the exited tool failed
          /\ tool' = [tool EXCEPT ![b] = Lost(@)]
          /\ Failed(b, "unmount", "Io")
    /\ UNCHANGED <<log, initram_fs_path, image, child, hostVars, consumed, test_fs,
                   findVars, sdVars,
                   vm, unpacking, caller>>

\* test::test_find_gzip_offset: let mounted_fs = build_image_root_fs(Mounted {}).
\* The test binary is a process of its own: it makes no build, and the program
\* makes no test value.
TestBuildImageRootFs ==
    /\ test_fs = NoRes
    /\ vm = "new"
    /\ \A b \in Builds : pc[b] = "idle"
    /\ \E S \in {"Unmounted", "Mounted"} : test_fs' = build_image_root_fs(S)
    /\ UNCHANGED <<buildVars, hostVars, consumed, findVars, sdVars, vm, unpacking, caller>>

\* ------------------------------------------------------------- VmManager

FIRECRACKET_SOCKET_DIR == <<"run", "firecracker">>

\* main: vm_manager.run().await, which begins with self.setup_socket_dir()?:
\* if !Path::exists(sockets_dir) { fs::create_dir_all(sockets_dir)? }.
\* main makes no build (the call of build_image_from_base is a comment), and
\* the test binary does not run the manager.
SetupSocketDir ==
    /\ vm = "new"
    /\ \A b \in Builds : pc[b] = "idle"
    /\ test_fs = NoRes
    /\ \E o \in setup_one_dir(FIRECRACKET_SOCKET_DIR, dirs, files) :
          /\ dirs' = o.dirs
          /\ vm' = IF o.ok THEN "recv" ELSE "Err"
    /\ UNCHANGED <<buildVars, files, mounts, root, inside, consumed, test_fs, findVars,
                   sdVars, unpacking, caller>>

\* run: while let Some(m) = self.rx.recv().await: the LaunchVm that main has
\* sent is received and launch_vm runs into todo!(); with the channel closed
\* the loop ends and run runs into todo!()
VmManagerLoop ==
    /\ vm = "recv"
    /\ vm' = "panic"
    /\ UNCHANGED <<buildVars, hostVars, consumed, test_fs, findVars, sdVars, unpacking, caller>>

Init ==
    /\ BuildIdle
    /\ dirs \in InitDirs
    /\ FindIdle
    /\ SdIdle

Next ==
    \/ \E b \in Builds : StartBuild(b)
    \/ \E b \in Builds : SetupDirs(b)
    \/ \E b \in Builds : AllocateFile(b)
    \/ \E b \in Builds : FormatCall(b)
    \/ \E b \in Builds : MkfsExit(b)
    \/ \E b \in Builds : FormatReturn(b)
    \/ \E b \in Builds : MountCall(b)
    \/ \E b \in Builds : MountExit(b)
    \/ \E b \in Builds : MountReturn(b)
    \/ \E b \in Builds : CopyFromBaseFs(b)
    \/ \E b \in Builds : UnpackEntry(b)
    \/ \E b \in Builds : CopyResolvConf(b)
    \/ \E b \in Builds : ExecuteSetupFork(b)
    \/ \E b \in Builds : ChildChroot(b)
    \/ \E b \in Builds : ChildCommand(b)
    \/ \E b \in Builds : ChildCommandExit(b)
    \/ \E b \in Builds : ChildExit(b)
    \/ \E b \in Builds : ChildEscapedEnd(b)
    \/ \E b \in Builds : Waitpid(b)
    \/ \E b \in Builds : ExtractInitramfs(b)
    \/ \E b \in Builds : ExtractAndDecompressVmlinuz(b)
    \/ \E b \in Builds : UnmountCall(b)
    \/ \E b \in Builds : UmountExit(b)
    \/ \E b \in Builds : UnmountReturn(b)
    \/ TestBuildImageRootFs
    \/ SetupSocketDir
    \/ VmManagerLoop

Spec == Init /\ [][Next]_vars

\* ------------------------------------- two calls without serialization

\* The calls that are made without serialization: two of them.
TwoCalls == {b \in Builds : b <= 2}

\* build_image_from_base(&self, ..) is entered while another call is running:
\* by the orchestrating process, or by a forked child that has returned out
\* of its call, on its copy of the builder
StartBuildConcurrent(b) ==
    /\ b \in TwoCalls
    /\ pc[b] = "idle"
    /\ vm = "new"
    /\ pc' = [pc EXCEPT ![b] = "setup_dirs"]
    /\ \E who \in {Orchestrator} \union {a \in TwoCalls \ {b} : CanCall(a)} :
          caller' = [caller EXCEPT ![b] = who]
    /\ UNCHANGED <<res, log, result, initram_fs_path, image, tool, child, hostVars,
                   consumed, test_fs, findVars, sdVars,
                   vm, unpacking>>

NextConcurrent ==
    \/ \E b \in Builds : StartBuildConcurrent(b)
    \/ \E b \in Builds : SetupDirs(b)
    \/ \E b \in Builds : AllocateFile(b)
    \/ \E b \in Builds : FormatCall(b)
    \/ \E b \in Builds : MkfsExit(b)
    \/ \E b \in Builds : FormatReturn(b)
    \/ \E b \in Builds : MountCall(b)
    \/ \E b \in Builds : MountExit(b)
    \/ \E b \in Builds : MountReturn(b)
    \/ \E b \in Builds : CopyFromBaseFs(b)
    \/ \E b \in Builds : UnpackEntry(b)
    \/ \E b \in Builds : CopyResolvConf(b)
    \/ \E b \in Builds : ExecuteSetupFork(b)
    \/ \E b \in Builds : ChildChroot(b)
    \/ \E b \in Builds : ChildCommand(b)
    \/ \E b \in Builds : ChildCommandExit(b)
    \/ \E b \in Builds : ChildExit(b)
    \/ \E b \in Builds : ChildEscapedEnd(b)
    \/ \E b \in Builds : Waitpid(b)
    \/ \E b \in Builds : ExtractInitramfs(b)
    \/ \E b \in Builds : ExtractAndDecompressVmlinuz(b)
    \/ \E b \in Builds : UnmountCall(b)
    \/ \E b \in Builds : UmountExit(b)
    \/ \E b \in Builds : UnmountReturn(b)
    \/ SetupSocketDir
    \/ VmManagerLoop

SpecConcurrent == Init /\ [][NextConcurrent]_vars

\* ------------------------------------- find_vmlinuz_gzip_offset on its own

\* The bytes of the enumerated inputs: the signature's bytes and 0x07.
Alphabet == {31, 139, 8, 7}

SeqsUpTo(S, n) == UNION {[1..k -> S] : k \in 0..n}

SmallInputs == SeqsUpTo(Alphabet, MaxLen)

\* Short reads of 1 to 3 bytes, so that a chunk can end anywhere in a signature.
ReadSchedules == SeqsUpTo(1..Len(GZIP_MAGIC_NUM), MaxReads)

Fill(n, byte) == [i \in 1..n |-> byte]

\* Inputs around the 1024-byte chunk boundary, read as a Cursor is read.
LargeInputs ==
    {Fill(n, 255) \o GZIP_MAGIC_NUM \o <<0>> :
        n \in {BufSize - 3, BufSize - 2, BufSize - 1, BufSize, 2 * BufSize - 1, 2 * BufSize + 5}}
    \union {Fill(BufSize, 255),
            Fill(BufSize - 2, 255) \o GZIP_MAGIC_NUM \o Fill(5, 1) \o GZIP_MAGIC_NUM}

InitFind ==
    /\ BuildIdle
    /\ dirs = Prefixes(get_mount_dir)
    /\ SdIdle
    /\ \/ /\ f_input \in SmallInputs
          /\ f_reads \in ReadSchedules
          /\ f_err_at \in 0..(Len(f_reads) + 1)
       \/ /\ f_input \in LargeInputs
          /\ f_reads = <<>>
          /\ f_err_at = 0
    /\ f_result = FindPending

\* mounted_fs.find_vmlinuz_gzip_offset(buf)
Find ==
    /\ f_result.kind = "none"
    /\ f_result' = find_vmlinuz_gzip_offset(f_input, f_reads, f_err_at)
    /\ UNCHANGED <<buildVars, hostVars, consumed, test_fs, f_input, f_reads, f_err_at, sdVars, vm, unpacking, caller>>

NextFind == Find

SpecFind == InitFind /\ [][NextFind]_vars

\* ------------------------------------------------------ setup_dirs on its own

\* Number of working directories setup_dirs is called with.
MaxDirs == 2

WorkingDirs == {get_working_dir(new_v4(i)) : i \in 1..MaxDirs}

MountDirs == {get_mount_dir, get_working_dir(new_v4(1))}

InitSetupDirs ==
    /\ BuildIdle
    /\ dirs \in InitDirs
    /\ FindIdle
    /\ SdIdle

\* builder.setup_dirs(working_dir, mount_dir)
SetupDirsCall(working_dir, mount_dir) ==
    /\ \E o \in setup_dirs(working_dir, mount_dir, dirs, files) :
          /\ dirs' = o.dirs
          /\ sd_result' = IF o.ok THEN "Ok" ELSE "Err"
    /\ sd_args' = <<working_dir, mount_dir>>
    /\ sd_before' = dirs
    /\ sd_ok' = IF sd_result = "Ok" THEN sd_ok \union {sd_args} ELSE sd_ok
    /\ UNCHANGED <<buildVars, files, mounts, root, inside, consumed, test_fs, findVars, vm, unpacking, caller>>

NextSetupDirs ==
    \E working_dir \in WorkingDirs, mount_dir \in MountDirs :
        SetupDirsCall(working_dir, mount_dir)

SpecSetupDirs == InitSetupDirs /\ [][NextSetupDirs]_vars

\* -------------------------------------------------------------------- claims

Ops(b) == [i \in 1..Len(log[b]) |-> log[b][i].op]

LastOp(b) == log[b][Len(log[b])].op

\* The stage order the specification gives for a build.
ClaimedStageOrder ==
    <<"setup_dirs", "allocate_file", "format", "mount", "copy_from_base_fs",
      "execute_setup", "extract_initramfs", "extract_and_decompress_vmlinuz", "unmount">>

\* C1: a build_image_from_base that returns an artifact descriptor has run
\* every stage exactly once, in the order setup_dirs, allocate_file (of
\* 256 MiB), format, mount, copy_from_base_fs, execute_setup,
\* extract_initramfs, extract_and_decompress_vmlinuz, unmount.
C1_StagesInOrder ==
    \A b \in Builds :
        result[b].kind = "Ok" =>
            /\ Ops(b) = ClaimedStageOrder
            /\ log[b][2].arg = 268435456

C1_Witness == \E b \in Builds : result[b].kind = "Ok" /\ Len(log[b]) = 9

UnmountedOps == {"allocate_file", "format", "mount"}

MountedOps == {"copy_from_base_fs", "execute_setup", "extract_initramfs",
               "extract_and_decompress_vmlinuz", "unmount"}

\* C2: a stage performed on an Unmounted resource is allocate_file, format or
\* mount; a stage performed on a Mounted resource is copy_from_base_fs,
\* execute_setup, extract_initramfs, extract_and_decompress_vmlinuz or
\* unmount; no stage is performed on a consumed resource, and the call that
\* consumed the resource (mount failing, or unmount) is the last one on it.
C2_StateMachineLegality ==
    \A b \in Builds :
        /\ \A i \in 1..Len(log[b]) :
              /\ log[b][i].state = "Unmounted" => log[b][i].op \in UnmountedOps
              /\ log[b][i].state = "Mounted" => log[b][i].op \in MountedOps
              /\ log[b][i].op \in UnmountedOps => log[b][i].state = "Unmounted"
              /\ log[b][i].op \in MountedOps => log[b][i].state = "Mounted"
              /\ log[b][i].state # "consumed"
        /\ res[b].state = "consumed" => LastOp(b) \in {"mount", "unmount"}

C2_Witness ==
    \E b \in Builds :
        /\ res[b].state = "consumed"
        /\ LastOp(b) = "unmount"
        /\ \E i \in 1..Len(log[b]) : log[b][i].state = "Mounted"

\* A stage of call b failed.
StageFailed(b) == result[b].stage # "none"

\* C3 as stated: when a stage fails, no later stage runs, the call returns an
\* error, and no artifact descriptor is returned.
C3_FailureReturnsError ==
    \A b \in Builds :
        StageFailed(b) =>
            /\ result[b].kind = "Err"
            /\ result[b].image = NoImage
            /\ pc[b] = "done"
            /\ LastOp(b) = result[b].stage

\* C3 amended: when a stage fails, no later stage runs, no artifact descriptor
\* is returned, and the call returns one error, except that a failing fork in
\* execute_setup panics instead of returning.
C3_FailureEndsBuild ==
    \A b \in Builds :
        StageFailed(b) =>
            /\ result[b].kind \in {"Err", "panic"}
            /\ result[b].kind = "panic" =>
                  result[b].stage = "execute_setup" /\ child[b].pc = "none"
            /\ result[b].image = NoImage
            /\ pc[b] = "done"
            /\ LastOp(b) = result[b].stage

C3_Witness ==
    \E b \in Builds :
        /\ result[b].kind = "Err"
        /\ result[b].stage = "copy_from_base_fs"
        /\ pc[b] = "done"

\* The image file of call b is attached at the shared mount_dir.
Occupies(b) ==
    /\ res[b].state # "none"
    /\ \E i \in 1..Len(mounts) : mounts[i] = res[b].rootfs_file

\* C4: with the builds serialized, at most one build has its image attached
\* at the shared mount_dir, whatever builds succeeded or failed before.
C4_AtMostOneMounted == Cardinality({b \in Builds : Occupies(b)}) <= 1

\* The 0-based indexes at which the signature occurs in data.
Occurrences(data) ==
    {i \in 0..(Len(data) - 3) : SubSeq(data, i + 1, i + 3) = <<31, 139, 8>>}

\* C5: an offset o that find_vmlinuz_gzip_offset returns is the number of
\* bytes read in the earlier chunks plus the position of the first match in the
\* current chunk, and the input bytes at o, o+1, o+2 are the signature.
C5_OffsetIsChunkStartPlusMatch ==
    f_result.kind = "Ok" =>
        /\ f_result.offset = f_result.before + f_result.p
        /\ f_result.p >= 0
        /\ f_result.offset \in Occurrences(f_input)
        /\ \A i \in Occurrences(f_input) : i >= f_result.before => i >= f_result.offset

C5_Witness ==
    /\ f_result.kind = "Ok"
    /\ f_result.before > 0
    /\ f_result.p > 0

\* C6: on an input whose first occurrence of the signature starts at byte N,
\* find_vmlinuz_gzip_offset returns N. Stated for the sources of the tests, a
\* Cursor over the bytes: no short read, no failing read.
C6_ReturnsFirstOccurrence ==
    (f_result.kind # "none" /\ f_reads = <<>> /\ f_err_at = 0
        /\ Occurrences(f_input) # {}) =>
        /\ f_result.kind = "Ok"
        /\ \A i \in Occurrences(f_input) : f_result.offset <= i

\* C7: on an input without the signature, find_vmlinuz_gzip_offset never
\* returns an offset, and when no read fails it returns MissingGzipHeader at
\* the read that returns zero bytes, the whole input having been read.
C7_NoSignatureFails ==
    (f_result.kind # "none" /\ Occurrences(f_input) = {}) =>
        /\ f_result.kind = "Err"
        /\ f_result.err = "Io" => f_err_at # 0
        /\ f_result.err = "MissingGzipHeader" => f_result.before = Len(f_input)
        /\ f_err_at = 0 => f_result.err = "MissingGzipHeader"

C7_Witness ==
    /\ f_result.kind = "Err"
    /\ f_result.err = "MissingGzipHeader"
    /\ Occurrences(f_input) = {}
    /\ \E i \in 1..(Len(f_input) - 2) : SubSeq(f_input, i, i + 2) = <<31, 139, 7>>

\* C8: a stage is started only when no external process of the build is
\* running: extract_initramfs starts after the forked child has terminated and
\* waitpid has returned Ok; a failing waitpid fails the build in execute_setup;
\* format, mount and unmount return after their tool has exited.
C8_StagesWaitForProcesses ==
    \A b \in Builds :
        /\ \A i \in 1..Len(log[b]) : ~log[b][i].busy
        /\ (\E i \in 1..Len(log[b]) : log[b][i].op = "extract_initramfs") =>
              child[b].pc = "exited" /\ child[b].waited = "ok"
        /\ child[b].waited = "failed" =>
              /\ result[b].kind = "Err"
              /\ result[b].stage = "execute_setup"
              /\ LastOp(b) = "execute_setup"
        /\ pc[b] \notin {"format", "mount", "unmount"} => tool[b].status # "running"

C8_Witness ==
    \E b \in Builds :
        /\ child[b].pc = "exited"
        /\ LastOp(b) = "unmount"
        /\ result[b].kind = "Ok"

\* r is the value of a mount() call on an Unmounted resource with r's fields.
CameFromMount(r) ==
    \E u \in consumed :
        /\ u.state = "Unmounted"
        /\ u.id = r.id
        /\ u.working_dir = r.working_dir
        /\ u.mount_dir = r.mount_dir
        /\ u.rootfs_file = r.rootfs_file

\* C9 as stated: every Mounted resource there is came from a mount() call on
\* an Unmounted resource with the same id, working_dir, mount_dir and
\* rootfs_file.
C9_EveryMountedCameFromMount ==
    \A r \in {res[b] : b \in Builds} \union {test_fs} :
        r.state = "Mounted" => CameFromMount(r)

\* C9 amended: every Mounted resource of a build_image_from_base call came from
\* a mount() call on an Unmounted resource with the same id, working_dir,
\* mount_dir and rootfs_file; the test helper build_image_root_fs makes a
\* Mounted resource from a struct literal.
C9_BuildMountedCameFromMount ==
    \A b \in Builds : res[b].state = "Mounted" => CameFromMount(res[b])

C9_Witness == \E b \in Builds : res[b].state = "Mounted" /\ pc[b] = "extract_initramfs"

\* C10: a setup_dirs call with the arguments of an earlier call that returned
\* Ok returns Ok and leaves the set of directories as it was.
C10_SetupDirsIdempotent ==
    sd_args \in sd_ok => sd_result = "Ok" /\ dirs = sd_before

C10_Witness == sd_args \in sd_ok /\ sd_result = "Ok" /\ Cardinality(sd_ok) > 1

\* The stages between mount() and unmount().
AfterMountStages == {"copy_from_base_fs", "execute_setup", "extract_initramfs",
                     "extract_and_decompress_vmlinuz"}

\* C11: a build that fails in a stage after mount() and before unmount()
\* returns without calling unmount, and the shared mount_dir is still occupied
\* when it has returned.
C11_FailureLeavesMountOccupied ==
    \A b \in Builds :
        (result[b].kind = "Err" /\ result[b].stage \in AfterMountStages) =>
            /\ \A i \in 1..Len(log[b]) : log[b][i].op # "unmount"
            /\ mounts # <<>>

\* The part of C11 about the calls alone: no unmount is called after the
\* failure, and what was attached at mount_dir when the stage failed stays.
C11_NoUnmountAfterFailure ==
    \A b \in Builds :
        (result[b].kind = "Err" /\ result[b].stage \in AfterMountStages) =>
            \A i \in 1..Len(log[b]) : log[b][i].op # "unmount"

\* C14: the forked child never returns out of execute_setup: it terminates in
\* it, with exit code 0.
C14_ChildNeverReturns ==
    \A b \in Builds :
        /\ ~child[b].escaped
        /\ child[b].pc = "exited" => child[b].code = 0

\* The pcs at which call b holds the Mounted resource and runs a stage on it.
MountedStagePcs == AfterMountStages \union {"waitpid"}

\* C19: while a build runs copy_from_base_fs, execute_setup, extract_initramfs
\* or extract_and_decompress_vmlinuz on its Mounted resource, its rootfs_file
\* is attached at mount_dir.
C19_TypedStateIsMountState ==
    \A b \in Builds :
        (pc[b] \in MountedStagePcs /\ res[b].state = "Mounted") => Occupies(b)

\* The Output of tool name is in the hands of call b.
Collected(b, name) == tool[b].name = name /\ tool[b].status = "collected"

\* What call b has got once tool name has exited and Command::output() has
\* returned its Output: after mount the Mounted resource and the next stage,
\* after umount the artifact descriptor.
OutputTaken(b) ==
    /\ Collected(b, MOUNT) =>
          /\ \/ pc[b] = "copy_from_base_fs"
             \/ \E i \in 1..Len(log[b]) : log[b][i].op = "copy_from_base_fs"
          /\ res[b].state = "Mounted" \/ result[b].stage = "unmount"
    /\ Collected(b, UMOUNT) =>
          /\ pc[b] = "done"
          /\ result[b].kind = "Ok"
          /\ result[b].image = image[b]
          /\ image[b] # NoImage

\* C17 as stated: mount() and unmount() fail only when their tool cannot be
\* invoked, so a call that failed in mount or unmount never ran that tool; and
\* once the tool has exited, with any status, the call goes on.
C17_FailOnlyWhenNotInvoked ==
    \A b \in Builds :
        /\ result[b].stage = "mount" => tool[b].name # MOUNT
        /\ result[b].stage = "unmount" => tool[b].name # UMOUNT
        /\ OutputTaken(b)

\* C17: mount() and unmount() fail only when Command::output() returns an
\* error: the tool was not launched, or it ran and the wait for it failed.
\* Whenever output() returns the Output of the mount tool, with any exit
\* status, mount() has returned the Mounted resource and the call goes on;
\* whenever it returns the Output of umount, with any exit status, the call
\* returns the artifact descriptor.
C17_ToolStatusNotSurfaced ==
    \A b \in Builds :
        /\ result[b].stage = "mount" =>
              (tool[b].name # MOUNT \/ tool[b].status = "lost")
        /\ result[b].stage = "unmount" =>
              (tool[b].name # UMOUNT \/ tool[b].status = "lost")
        /\ OutputTaken(b)

\* One call has returned Ok(image) after umount exited with status 1, and a
\* later one has gone on to execute_setup after mount exited with status 1.
C17_Witness ==
    \E a \in Builds, b \in Builds :
        /\ Collected(a, UMOUNT) /\ tool[a].code = 1 /\ result[a].kind = "Ok"
        /\ Collected(b, MOUNT) /\ tool[b].code = 1 /\ pc[b] = "execute_setup"
        /\ res[b].state = "Mounted"

\* C18: format() fails when mkfs.ext4 exits non-zero and succeeds when it
\* exits zero.
C18_FormatFailsOnNonZeroExit ==
    \A b \in Builds :
        Collected(b, MKFS_EXT4) =>
            IF tool[b].code = 0
              THEN result[b].stage # "format"
              ELSE result[b].kind = "Err" /\ result[b].stage = "format"

\* C16: the orchestrating process never changes its root: it is the host's
\* root before, during and after execute_setup, and at every stage call.
C16_ParentRootUnchanged ==
    /\ root = "host"
    /\ \A b \in Builds : \A i \in 1..Len(log[b]) : log[b][i].root = "host"

\* The child of a call is chrooted into mount_dir and runs its commands.
C16_Witness ==
    \E b \in Builds :
        /\ child[b].pc = "cmds"
        /\ child[b].root = "mount_dir"
        /\ root = "host"
        /\ LastOp(b) = "execute_setup"

\* The stages of a call after execute_setup
LaterStages == {"extract_initramfs", "extract_and_decompress_vmlinuz", "unmount"}

\* C20: the stages after execute_setup are executed by the orchestrating
\* process only: a forked child is never at extract_initramfs,
\* extract_and_decompress_vmlinuz or unmount of the call that forked it, no
\* call that a forked child has made runs one of these stages, and the call
\* log of a build has at most one unmount.
C20_ChildRunsNoLaterStage ==
    \A b \in Builds :
        /\ child[b].pc \notin LaterStages \union {"done"}
        /\ caller[b] # Orchestrator =>
              \A i \in 1..Len(log[b]) : log[b][i].op \notin LaterStages
        /\ Cardinality({i \in 1..Len(log[b]) : log[b][i].op = "unmount"}) <= 1

\* The child of call b is in the command loop, between two commands, and the
\* command that has just exited did so with a non-zero status.
AfterNonZeroExit(b) ==
    /\ child[b].pc = "cmds"
    /\ child[b].running = {}
    /\ child[b].last = 1

\* C15: the child runs the commands in list order, each at most once, one at
\* a time: the commands launched so far are 1..n of the list, only the latest
\* of them can be running, and the next one was not launched before it exited.
\* After a non-zero exit status the next command of the list is launched all
\* the same; after a launch failure nothing is running and nothing is launched.
C15_CommandsInOrder ==
    \A b \in Builds :
        LET c == child[b]
        IN  /\ c.pc = "cmds" =>
                  /\ c.ran = [i \in 1..Len(c.ran) |-> i]
                  /\ Len(c.ran) <= Len(get_alpine_setup_commands)
                  /\ c.k = Len(c.ran) + 1
                  /\ c.running \subseteq {Len(c.ran)}
                  /\ c.running # {} => c.last = -1
            /\ (AfterNonZeroExit(b) /\ c.k <= Len(get_alpine_setup_commands)) =>
                  ENABLED ChildCommand(b)
            /\ c.pc = "escaped" => (c.running = {} /\ ~ENABLED ChildCommand(b))

\* The third command has exited with a non-zero status and the fourth, the
\* last of the list, is to be launched.
C15_Witness ==
    \E b \in Builds :
        /\ AfterNonZeroExit(b)
        /\ child[b].ran = <<1, 2, 3>>
        /\ child[b].k = Len(get_alpine_setup_commands)

\* The positions of the input at which the chunks of the loop begin, when the
\* whole input is read: chunk by chunk as find_loop reads it.
RECURSIVE ChunkStarts(_, _, _, _, _)
ChunkStarts(data, reads, pos, avail, k) ==
    LET filled == IF avail = 0 THEN inner_read(Len(data) - pos, reads, k + 1) ELSE avail
        k2 == IF avail = 0 THEN k + 1 ELSE k
        read == Min(filled, BufSize)
    IN  IF read = 0 THEN {}
        ELSE {pos} \union ChunkStarts(data, reads, pos + read, filled - read, k2)

\* The occurrence at i has its three bytes in two (or three) chunks.
Straddles(i, starts) == \E s \in starts : i < s /\ s <= i + 2

\* The occurrences of the signature that lie within one chunk.
WholeOccurrences(data, reads) ==
    {i \in Occurrences(data) : ~Straddles(i, ChunkStarts(data, reads, 0, 0, 0))}

\* C13: an occurrence of the signature whose bytes lie in two consecutive
\* chunks is not detected. When no read fails, the offset returned is the first
\* occurrence that lies within one chunk, and when every occurrence straddles
\* a chunk boundary the result is MissingGzipHeader.
C13_StraddlingOccurrenceMissed ==
    (f_result.kind # "none" /\ f_err_at = 0) =>
        LET whole == WholeOccurrences(f_input, f_reads)
        IN  IF whole = {}
              THEN f_result.kind = "Err" /\ f_result.err = "MissingGzipHeader"
              ELSE /\ f_result.kind = "Ok"
                   /\ f_result.offset \in whole
                   /\ \A i \in whole : f_result.offset <= i

\* A Cursor whose only occurrence of the signature lies across the end of the
\* first 1024-byte chunk: MissingGzipHeader.
C13_Witness ==
    /\ f_result.kind = "Err"
    /\ f_result.err = "MissingGzipHeader"
    /\ f_reads = <<>>
    /\ f_err_at = 0
    /\ Cardinality(Occurrences(f_input)) = 1
    /\ \A i \in Occurrences(f_input) : i < BufSize /\ BufSize <= i + 2

\* C12: nothing in the builder blocks or rejects the mount() of a call while
\* another call holds a Mounted resource. Not blocked: a call that has reached
\* mount can run the mount tool, one whose mount tool has exited gets its
\* Mounted resource, and one that holds it can go on with copy_from_base_fs,
\* whatever the other call is doing. Not rejected: a call fails in mount only
\* with the Io error of Command::output(), never because of another call.
C12_NothingBlocksSecondMount ==
    \A b \in Builds :
        /\ (pc[b] = "mount" /\ NoToolPending(tool[b])) => ENABLED MountCall(b)
        /\ (pc[b] = "mount" /\ tool[b].name = MOUNT /\ tool[b].status = "exited") =>
               ENABLED MountReturn(b)
        /\ result[b].stage = "mount" =>
               /\ result[b].err = "Io"
               /\ tool[b].name # MOUNT \/ tool[b].status = "lost"
        /\ pc[b] = "copy_from_base_fs" =>
               /\ res[b].state = "Mounted"
               /\ ENABLED (CopyFromBaseFs(b) \/ UnpackEntry(b) \/ CopyResolvConf(b))

\* Two calls hold a Mounted resource for the same mount_dir, the image of the
\* second is attached on top of the image of the first, the first has not
\* called unmount, and the unpack of the second has written the initramfs
\* under mount_dir, into its own image.
C12_Witness ==
    \E a \in Builds, b \in Builds :
        /\ a # b
        /\ res[a].state = "Mounted" /\ res[b].state = "Mounted"
        /\ res[a].mount_dir = res[b].mount_dir
        /\ mounts = <<res[a].rootfs_file, res[b].rootfs_file>>
        /\ pc[a] \in MountedStagePcs
        /\ pc[b] = "copy_from_base_fs" /\ unpacking[b] >= 1
        /\ <<res[b].rootfs_file, <<BOOT, INITRAM_FS>>>> \in inside

\* The files of the host that lie in directory dir.
FilesIn(dir) == {f \in files : Len(f) = Len(dir) + 1 /\ SubSeq(f, 1, Len(dir)) = dir}

\* C21: working_dir/vmlinux-virt exists only when extract_and_decompress_vmlinuz
\* has located the signature offset: when the kernel file could not be opened
\* or the search failed (MissingGzipHeader, or a failing read) there is no
\* output file, and working_dir holds what it held before the call, the image
\* file and the initramfs.
C21_OutputOnlyAfterOffsetFound ==
    \A b \in Builds :
        LET out_path == push(res[b].working_dir, VMLINUX)
        IN  res[b] # NoRes =>
              /\ out_path \in files =>
                    /\ \E i \in 1..Len(log[b]) :
                          log[b][i].op = "extract_and_decompress_vmlinuz"
                    /\ result[b].at \notin {"open", "find", "create_new"}
                    /\ result[b].err # "MissingGzipHeader"
              /\ (result[b].at \in {"open", "find"}
                    \/ result[b].err = "MissingGzipHeader") =>
                    /\ out_path \notin files
                    /\ FilesIn(res[b].working_dir) =
                          {res[b].rootfs_file, initram_fs_path[b]}

\* One call has failed with MissingGzipHeader and has no output file, and a
\* call before it could not open the kernel file and has none either.
C21_Witness ==
    \E a \in Builds, b \in Builds :
        /\ result[a].at = "open"
        /\ push(res[a].working_dir, VMLINUX) \notin files
        /\ result[b].err = "MissingGzipHeader"
        /\ result[b].at = "find"
        /\ push(res[b].working_dir, VMLINUX) \notin files
        /\ initram_fs_path[b] \in files

====
